---- MODULE Spec2Model ----
(***************************************************************************)
(* The ink! contract `betting` (contracts/src/betting/lib.rs): the bet     *)
(* ledger, its accept/reject phase, the bettors' outcome votes and the     *)
(* reviewer registry.  Every message of the contract is one atomic step.   *)
(* A message that panics traps: the host reverts the call, so the storage  *)
(* is what it was before the call and the caller gets no Result value.     *)
(***************************************************************************)
EXTENDS Integers, Sequences, FiniteSets, TLC

\* ------------------------------------------------------------------ bounds
\* Largest Balance value of the model: Balance arithmetic is modulo MaxBalance + 1
\* (the contract's Balance is u128, modulo 2^128).
MaxBalance == 1
\* Largest creation fee the constructor is given.
MaxFee == 1
\* Most bets the ledger holds.
MaxBets == 2
\* Largest winner code submitted; every code above 2 decodes alike.
MaxWinner == 3
\* Most register_as_reviewer calls.
MaxRegistrations == 1
\* Largest `bettor` code passed to get_bettor_account_id (a u8 in the contract).
MaxBettor == 3

\* ------------------------------------------------------------------ values
Accounts == {"alice", "bob", "charlie"}

\* The constructor's final_decision_maker (the tests construct with alice).
FinalDecisionMakers == {"alice"}

None == "None"

Balances == 0..MaxBalance

WinnerCodes == 0..MaxWinner

BettorCodes == 0..MaxBettor

\* Deadline texts, as the tokens of the string.
DatetimeStrings ==
    { <<"2023-12-21", "T", "00:00:00", "Z">>, <<"2023-12-22", "T", "00:00:00">> }

Criteria == "Red wins game against blue on December 21st, 2023."

Errors ==
    { "NotFinalDecisionMaker", "BetDoesNotExist", "BettorDoesNotExist",
      "NotDatetimeString", "InssufficientAmountOfTokensSent", "NotBettor2",
      "CallerNotValidBettor", "InvalidStateForCallingFunction" }

BetStates ==
    { "Created", "BetAcceptedByBettor2", "BetRefusedByBettor2", "EventConcluded",
      "Bettor1Voted", "Bettor2Voted", "Bettor1Wins", "Bettor2Wins", "BettorsDrew",
      "BettorsDisagree" }

BetOutcomes == { "Draw", "Bettor1Wins", "Bettor2Wins", "Undecideable" }

\* A call that panicked (trapped) instead of returning a Result.
Panic == "Panic"

Ok == "Ok"

VARIABLES
    bet_creation_fee,       \* Betting.bet_creation_fee
    reviewers,              \* Betting.reviewers, the set of its keys
    number_of_reviewers,    \* Betting.number_of_reviewers
    final_decision_maker,   \* Betting.final_decision_maker
    latest_bet,             \* Betting.latest_bet
    bets,                   \* Betting.bets
    created,                \* history: per bet, the Bet as create_bet built it
    votes,                  \* history: per bet, the winner code each bettor last submitted
    register_calls          \* history: the register_as_reviewer calls made so far

vars ==
    << bet_creation_fee, reviewers, number_of_reviewers, final_decision_maker,
       latest_bet, bets, created, votes, register_calls >>

\* ------------------------------------------------------------------ helpers
\* Vec::get(n as usize): bet n of a ledger b, counted from 0.
HasBet(b, n) == n < Len(b)

BetAt(b, n) == b[n + 1]

\* *x = ...: the ledger with bet n replaced.
SetBet(b, n, x) == [b EXCEPT ![n + 1] = x]

\* str::parse::<DateTime<Utc>>: an absolute datetime carries the UTC designator.
ParsesAsUtc(dt) == Len(dt) = 4 /\ dt[2] = "T" /\ dt[4] = "Z"

\* Balance addition without overflow checks: modulo the width.
WrappingAdd(a, b) == (a + b) % (MaxBalance + 1)

Overflows(a, b) == a + b > MaxBalance

\* The match on `winner` in submit_outcome.
DecodeWinner(winner) ==
    CASE winner = 0 -> "Draw"
      [] winner = 1 -> "Bettor1Wins"
      [] winner = 2 -> "Bettor2Wins"
      [] OTHER -> "Undecideable"

\* The match on the two claims in submit_outcome (bettor_1's claim first).
Reconcile(o1, o2) ==
    CASE o1 = "Draw" /\ o2 = "Draw" -> "BettorsDrew"
      [] o1 = "Undecideable" /\ o2 = "Undecideable" -> "BettorsDrew"
      [] o1 = "Bettor1Wins" /\ o2 = "Bettor1Wins" -> "Bettor1Wins"
      [] o1 = "Bettor2Wins" /\ o2 = "Bettor2Wins" -> "Bettor2Wins"
      [] OTHER -> "BettorsDisagree"

\* What a call leaves: its result, the value it returned (<<>> when none) and the
\* ledger.
Outcome(result, ret, b, lb) ==
    [ result |-> result, ret |-> ret, bets |-> b, latest_bet |-> lb ]

\* return Err(e), or a trap: the ledger is untouched.
Fail(e) == Outcome(e, <<>>, bets, latest_bet)

\* The builds that differ on a call: overflow-checks on (TRUE) or off (FALSE) matter
\* only to a call whose sum overflows.
OverflowChecks(amount_to_wager) ==
    IF Overflows(bet_creation_fee, amount_to_wager) THEN BOOLEAN ELSE {TRUE}

\* ------------------------------------------------------------------ messages
\* The Bet that create_bet builds.
NewBet(caller, amount_to_wager, bettor_2, event_decided_by) ==
    [ amount_wagered |-> amount_to_wager,
      bettor_1 |-> caller,
      bettor_2 |-> bettor_2,
      criteria_for_winning |-> Criteria,
      event_decided_by |-> event_decided_by,
      state |-> "Created",
      outcome_claimed_by_bettor_1 |-> None,
      outcome_claimed_by_bettor_2 |-> None,
      reviewer |-> None,
      outcome_claimed_by_reviewer |-> None ]

\* create_bet that reads the bet number after incrementing latest_bet.
create_bet_ReturnsCount(caller, value, amount_to_wager, bettor_2, event_decided_by, checked) ==
    IF Overflows(bet_creation_fee, amount_to_wager) /\ checked
    THEN Fail(Panic)
    ELSE IF value < WrappingAdd(bet_creation_fee, amount_to_wager)
    THEN Fail("InssufficientAmountOfTokensSent")
    ELSE IF ~ParsesAsUtc(event_decided_by)
    THEN Fail("NotDatetimeString")
    ELSE Outcome(Ok, <<latest_bet + 1>>,
                 Append(bets, NewBet(caller, amount_to_wager, bettor_2, event_decided_by)),
                 latest_bet + 1)

\* create_bet that appends the bet but leaves latest_bet as it was.
create_bet_KeepsCounter(caller, value, amount_to_wager, bettor_2, event_decided_by, checked) ==
    IF Overflows(bet_creation_fee, amount_to_wager) /\ checked
    THEN Fail(Panic)
    ELSE IF value < WrappingAdd(bet_creation_fee, amount_to_wager)
    THEN Fail("InssufficientAmountOfTokensSent")
    ELSE IF ~ParsesAsUtc(event_decided_by)
    THEN Fail("NotDatetimeString")
    ELSE Outcome(Ok, <<latest_bet>>,
                 Append(bets, NewBet(caller, amount_to_wager, bettor_2, event_decided_by)),
                 latest_bet)

\* create_bet.  `checked` is the build's overflow-checks setting: with it the
\* overflowing sum panics, without it the sum wraps.
create_bet(caller, value, amount_to_wager, bettor_2, event_decided_by, checked) ==
    IF Overflows(bet_creation_fee, amount_to_wager) /\ checked
    THEN Fail(Panic)
    ELSE IF value < WrappingAdd(bet_creation_fee, amount_to_wager)
    THEN Fail("InssufficientAmountOfTokensSent")
    ELSE IF ~ParsesAsUtc(event_decided_by)
    THEN Fail("NotDatetimeString")
    ELSE Outcome(Ok, <<latest_bet>>,
                 Append(bets, NewBet(caller, amount_to_wager, bettor_2, event_decided_by)),
                 latest_bet + 1)

\* reject_bet that asks for the stake, as accept_bet does.
reject_bet_NeedsFunds(caller, value, n) ==
    IF ~HasBet(bets, n)
    THEN Fail("BetDoesNotExist")
    ELSE LET x == BetAt(bets, n) IN
         IF value < x.amount_wagered
         THEN Fail("InssufficientAmountOfTokensSent")
         ELSE IF x.bettor_2 = None
         THEN Fail("NotBettor2")
         ELSE IF x.bettor_2 = caller
         THEN Outcome(Ok, <<TRUE>>,
                      SetBet(bets, n, [x EXCEPT !.state = "BetRefusedByBettor2"]),
                      latest_bet)
         ELSE Fail("NotBettor2")

\* reject_bet that lets any caller refuse a bet that has no bettor_2 yet.
reject_bet_OpenRefusal(caller, value, n) ==
    IF ~HasBet(bets, n)
    THEN Fail("BetDoesNotExist")
    ELSE LET x == BetAt(bets, n) IN
         IF x.bettor_2 = None \/ x.bettor_2 = caller
         THEN Outcome(Ok, <<TRUE>>,
                      SetBet(bets, n, [x EXCEPT !.state = "BetRefusedByBettor2"]),
                      latest_bet)
         ELSE Fail("NotBettor2")

\* reject_bet.
reject_bet(caller, value, n) ==
    IF ~HasBet(bets, n)
    THEN Fail("BetDoesNotExist")
    ELSE LET x == BetAt(bets, n) IN
         IF x.bettor_2 = None
         THEN Fail("NotBettor2")
         ELSE IF x.bettor_2 = caller
         THEN Outcome(Ok, <<TRUE>>,
                      SetBet(bets, n, [x EXCEPT !.state = "BetRefusedByBettor2"]),
                      latest_bet)
         ELSE Fail("NotBettor2")

\* accept_bet with the counterparty check ahead of the funds check.
accept_bet_CounterpartyFirst(caller, value, n) ==
    IF ~HasBet(bets, n)
    THEN Fail("BetDoesNotExist")
    ELSE LET x == BetAt(bets, n) IN
         IF x.bettor_2 # None /\ x.bettor_2 # caller
         THEN Fail("NotBettor2")
         ELSE IF value < x.amount_wagered
         THEN Fail("InssufficientAmountOfTokensSent")
         ELSE Outcome(Ok, <<TRUE>>,
                      SetBet(bets, n, [x EXCEPT !.state = "BetAcceptedByBettor2",
                                                !.bettor_2 = caller]),
                      latest_bet)

\* accept_bet that leaves an open bet's bettor_2 unset.
accept_bet_KeepsUnset(caller, value, n) ==
    IF ~HasBet(bets, n)
    THEN Fail("BetDoesNotExist")
    ELSE LET x == BetAt(bets, n) IN
         IF value < x.amount_wagered
         THEN Fail("InssufficientAmountOfTokensSent")
         ELSE IF x.bettor_2 = None \/ x.bettor_2 = caller
         THEN Outcome(Ok, <<TRUE>>,
                      SetBet(bets, n, [x EXCEPT !.state = "BetAcceptedByBettor2"]),
                      latest_bet)
         ELSE Fail("NotBettor2")

\* accept_bet without the test of an assigned bettor_2: the caller takes the bet over.
accept_bet_Reassigns(caller, value, n) ==
    IF ~HasBet(bets, n)
    THEN Fail("BetDoesNotExist")
    ELSE LET x == BetAt(bets, n) IN
         IF value < x.amount_wagered
         THEN Fail("InssufficientAmountOfTokensSent")
         ELSE Outcome(Ok, <<TRUE>>,
                      SetBet(bets, n, [x EXCEPT !.state = "BetAcceptedByBettor2",
                                                !.bettor_2 = caller]),
                      latest_bet)

\* accept_bet that sets the state before it tests the caller.
accept_bet_StateFirst(caller, value, n) ==
    IF ~HasBet(bets, n)
    THEN Fail("BetDoesNotExist")
    ELSE LET x == BetAt(bets, n)
             accepted == SetBet(bets, n, [x EXCEPT !.state = "BetAcceptedByBettor2"])
         IN  IF value < x.amount_wagered
             THEN Fail("InssufficientAmountOfTokensSent")
             ELSE IF x.bettor_2 = None
             THEN Outcome(Ok, <<TRUE>>,
                          SetBet(bets, n, [x EXCEPT !.state = "BetAcceptedByBettor2",
                                                    !.bettor_2 = caller]),
                          latest_bet)
             ELSE IF x.bettor_2 = caller
             THEN Outcome(Ok, <<TRUE>>, accepted, latest_bet)
             ELSE Outcome("NotBettor2", << >>, accepted, latest_bet)

\* accept_bet that writes the acceptance into the last bet of the ledger instead of
\* bet n.
accept_bet_WritesLast(caller, value, n) ==
    IF ~HasBet(bets, n)
    THEN Fail("BetDoesNotExist")
    ELSE LET x == BetAt(bets, n)
             last == Len(bets) - 1
         IN
         IF value < x.amount_wagered
         THEN Fail("InssufficientAmountOfTokensSent")
         ELSE IF x.bettor_2 = None
         THEN Outcome(Ok, <<TRUE>>,
                      SetBet(bets, last,
                             [BetAt(bets, last) EXCEPT !.state = "BetAcceptedByBettor2",
                                                       !.bettor_2 = caller]),
                      latest_bet)
         ELSE IF x.bettor_2 = caller
         THEN Outcome(Ok, <<TRUE>>,
                      SetBet(bets, last,
                             [BetAt(bets, last) EXCEPT !.state = "BetAcceptedByBettor2"]),
                      latest_bet)
         ELSE Fail("NotBettor2")

\* accept_bet.
accept_bet(caller, value, n) ==
    IF ~HasBet(bets, n)
    THEN Fail("BetDoesNotExist")
    ELSE LET x == BetAt(bets, n) IN
         IF value < x.amount_wagered
         THEN Fail("InssufficientAmountOfTokensSent")
         ELSE IF x.bettor_2 = None
         THEN Outcome(Ok, <<TRUE>>,
                      SetBet(bets, n, [x EXCEPT !.state = "BetAcceptedByBettor2",
                                                !.bettor_2 = caller]),
                      latest_bet)
         ELSE IF x.bettor_2 = caller
         THEN Outcome(Ok, <<TRUE>>,
                      SetBet(bets, n, [x EXCEPT !.state = "BetAcceptedByBettor2"]),
                      latest_bet)
         ELSE Fail("NotBettor2")

\* The bettor_1 branch without its last else: a vote is taken in any state.
SubmitAsBettor1_NoStateGuard(bet, n, outcome) ==
    IF bet.state = "Bettor2Voted"
    THEN IF bet.outcome_claimed_by_bettor_2 = None
         THEN Fail(Panic)
         ELSE Outcome(Ok, <<>>,
                      SetBet(bets, n,
                             [bet EXCEPT !.state =
                                 Reconcile(outcome, bet.outcome_claimed_by_bettor_2)]),
                      latest_bet)
    ELSE Outcome(Ok, <<>>, SetBet(bets, n, [bet EXCEPT !.state = "Bettor1Voted"]),
                 latest_bet)

\* submit_outcome, the branch of a caller that is bettor_1.
SubmitAsBettor1(bet, n, outcome) ==
    IF bet.state = "Bettor2Voted"
    THEN IF bet.outcome_claimed_by_bettor_2 = None
         THEN Fail(Panic)
         ELSE Outcome(Ok, <<>>,
                      SetBet(bets, n,
                             [bet EXCEPT !.state =
                                 Reconcile(outcome, bet.outcome_claimed_by_bettor_2)]),
                      latest_bet)
    ELSE IF bet.state = "EventConcluded"
    THEN Outcome(Ok, <<>>, SetBet(bets, n, [bet EXCEPT !.state = "Bettor1Voted"]),
                 latest_bet)
    ELSE Fail("InvalidStateForCallingFunction")

\* The bettor_2 branch without its last else: a vote is taken in any state.
SubmitAsBettor2_NoStateGuard(bet, n, outcome) ==
    IF bet.state = "Bettor1Voted"
    THEN IF bet.outcome_claimed_by_bettor_1 = None
         THEN Fail(Panic)
         ELSE Outcome(Ok, <<>>,
                      SetBet(bets, n,
                             [bet EXCEPT !.state =
                                 Reconcile(bet.outcome_claimed_by_bettor_1, outcome)]),
                      latest_bet)
    ELSE Outcome(Ok, <<>>, SetBet(bets, n, [bet EXCEPT !.state = "Bettor2Voted"]),
                 latest_bet)

\* submit_outcome, the branch of a caller that is bettor_2.
SubmitAsBettor2(bet, n, outcome) ==
    IF bet.state = "Bettor1Voted"
    THEN IF bet.outcome_claimed_by_bettor_1 = None
         THEN Fail(Panic)
         ELSE Outcome(Ok, <<>>,
                      SetBet(bets, n,
                             [bet EXCEPT !.state =
                                 Reconcile(bet.outcome_claimed_by_bettor_1, outcome)]),
                      latest_bet)
    ELSE IF bet.state = "EventConcluded"
    THEN Outcome(Ok, <<>>, SetBet(bets, n, [bet EXCEPT !.state = "Bettor2Voted"]),
                 latest_bet)
    ELSE Fail("InvalidStateForCallingFunction")

\* submit_outcome that takes any caller for bettor_2 while the bet has none.
submit_outcome_OpenSeat(caller, n, winner) ==
    IF ~HasBet(bets, n)
    THEN Fail("BetDoesNotExist")
    ELSE LET bet == BetAt(bets, n)
             outcome == DecodeWinner(winner)
         IN  IF bet.bettor_1 = None
             THEN Fail(Panic)
             ELSE IF bet.bettor_1 = caller
             THEN SubmitAsBettor1(bet, n, outcome)
             ELSE IF bet.bettor_2 = None \/ bet.bettor_2 = caller
             THEN SubmitAsBettor2(bet, n, outcome)
             ELSE Fail("CallerNotValidBettor")

\* submit_outcome.
submit_outcome(caller, n, winner) ==
    IF ~HasBet(bets, n)
    THEN Fail("BetDoesNotExist")
    ELSE LET bet == BetAt(bets, n)
             outcome == DecodeWinner(winner)
         IN  IF bet.bettor_1 = None
             THEN Fail(Panic)
             ELSE IF bet.bettor_1 = caller
             THEN SubmitAsBettor1(bet, n, outcome)
             ELSE IF bet.bettor_2 # None /\ bet.bettor_2 = caller
             THEN SubmitAsBettor2(bet, n, outcome)
             ELSE Fail("CallerNotValidBettor")

\* ------------------------------------------------------------------ accessors
\* What a read-only message returns.
Answer(result, ret) == [ result |-> result, ret |-> ret ]

\* Days from 1970-01-01 to the date of a deadline text.
DaysSinceEpoch(date) ==
    CASE date = "2023-12-21" -> 19712
      [] date = "2023-12-22" -> 19713

\* Seconds from midnight to the time of day of a deadline text.
SecondOfDay(time) ==
    CASE time = "00:00:00" -> 0

\* DateTime<Utc>::timestamp_millis, as whole seconds and the milliseconds beyond
\* them: the value is seconds * 1000 + millis.
timestamp_millis(dt) ==
    [ seconds |-> DaysSinceEpoch(dt[1]) * 86400 + SecondOfDay(dt[3]), millis |-> 0 ]

\* convert_datetime_to_ms.
convert_datetime_to_ms(dt) ==
    IF ParsesAsUtc(dt)
    THEN Answer(Ok, timestamp_millis(dt))
    ELSE Answer("NotDatetimeString", <<>>)

\* get_amount_wagered.
get_amount_wagered(n) ==
    IF HasBet(bets, n)
    THEN Answer(Ok, BetAt(bets, n).amount_wagered)
    ELSE Answer("BetDoesNotExist", <<>>)

\* get_event_decided_by.
get_event_decided_by(n) ==
    IF HasBet(bets, n)
    THEN Answer(Ok, BetAt(bets, n).event_decided_by)
    ELSE Answer("BetDoesNotExist", <<>>)

\* get_event_decided_by_as_ms.
get_event_decided_by_as_ms(n) ==
    IF HasBet(bets, n)
    THEN convert_datetime_to_ms(BetAt(bets, n).event_decided_by)
    ELSE Answer("BetDoesNotExist", <<>>)

\* get_bet_state.
get_bet_state(n) ==
    IF HasBet(bets, n)
    THEN Answer(Ok, BetAt(bets, n).state)
    ELSE Answer("BetDoesNotExist", <<>>)

\* get_criteria_for_winning.
get_criteria_for_winning(n) ==
    IF HasBet(bets, n)
    THEN Answer(Ok, BetAt(bets, n).criteria_for_winning)
    ELSE Answer("BetDoesNotExist", <<>>)

\* get_bettor_account_id that looks at the bettor code before it looks the bet up.
get_bettor_account_id_BettorFirst(n, bettor) ==
    IF bettor \notin {1, 2}
    THEN Answer("BettorDoesNotExist", <<>>)
    ELSE IF ~HasBet(bets, n)
    THEN Answer("BetDoesNotExist", <<>>)
    ELSE IF bettor = 1
    THEN Answer(Ok, BetAt(bets, n).bettor_1)
    ELSE Answer(Ok, BetAt(bets, n).bettor_2)

\* get_bettor_account_id.
get_bettor_account_id(n, bettor) ==
    IF HasBet(bets, n)
    THEN CASE bettor = 1 -> Answer(Ok, BetAt(bets, n).bettor_1)
           [] bettor = 2 -> Answer(Ok, BetAt(bets, n).bettor_2)
           [] OTHER -> Answer("BettorDoesNotExist", <<>>)
    ELSE Answer("BetDoesNotExist", <<>>)

\* What each per-bet accessor returns for index n, get_bettor_account_id with every
\* bettor code.
AccessorCalls(n) ==
    { get_amount_wagered(n), get_event_decided_by(n), get_event_decided_by_as_ms(n),
      get_bet_state(n), get_criteria_for_winning(n) }
    \cup { get_bettor_account_id(n, bettor) : bettor \in BettorCodes }

\* ------------------------------------------------------------------ reviewers
\* register_as_reviewer that counts an account only when it is not yet registered.
register_as_reviewer_OnlyNew(caller) ==
    [ result |-> Ok,
      reviewers |-> reviewers \cup {caller},
      number_of_reviewers |->
          IF caller \in reviewers THEN number_of_reviewers ELSE number_of_reviewers + 1 ]

\* register_as_reviewer: its result and the registry after the call.
register_as_reviewer(caller) ==
    [ result |-> Ok,
      reviewers |-> reviewers \cup {caller},
      number_of_reviewers |-> number_of_reviewers + 1 ]

\* ------------------------------------------------------------------ history
NoVote == -1

NoVotes == [ bettor_1 |-> NoVote, bettor_2 |-> NoVote ]

\* The votes after `caller` submitted `winner` for bet n: a bettor's submission is
\* kept when the bet's state lets that bettor vote, whether or not the call trapped.
Submitted(caller, n, winner) ==
    IF ~HasBet(bets, n)
    THEN votes
    ELSE LET bet == BetAt(bets, n) IN
         IF bet.bettor_1 = caller
         THEN IF bet.state \in {"EventConcluded", "Bettor2Voted"}
              THEN [votes EXCEPT ![n + 1].bettor_1 = winner]
              ELSE votes
         ELSE IF bet.bettor_2 = caller /\ bet.state \in {"EventConcluded", "Bettor1Voted"}
         THEN [votes EXCEPT ![n + 1].bettor_2 = winner]
         ELSE votes

\* ------------------------------------------------------------------ actions
\* Betting::new(final_decision_maker, bet_creation_fee).
Init ==
    /\ bet_creation_fee \in 0..MaxFee
    /\ final_decision_maker \in FinalDecisionMakers
    /\ reviewers = {}
    /\ number_of_reviewers = 0
    /\ latest_bet = 0
    /\ bets = << >>
    /\ created = << >>
    /\ votes = << >>
    /\ register_calls = 0

\* The ledger part of a step: the call's outcome becomes the storage.
Returns(out) ==
    /\ bets' = out.bets
    /\ latest_bet' = out.latest_bet
    /\ UNCHANGED << bet_creation_fee, final_decision_maker, reviewers,
                    number_of_reviewers, register_calls >>

\* A create_bet call; it succeeds only while the ledger holds fewer than `most` bets.
Create(most) ==
    \E caller \in Accounts, value \in Balances, amount_to_wager \in Balances,
       bettor_2 \in Accounts \cup {None}, event_decided_by \in DatetimeStrings :
      \E checked \in OverflowChecks(amount_to_wager) :
        LET out == create_bet(caller, value, amount_to_wager, bettor_2,
                              event_decided_by, checked)
        IN  /\ out.result = Ok => Len(bets) < most
            /\ Returns(out)
            /\ created' = IF out.result = Ok
                          THEN Append(created, BetAt(out.bets, latest_bet))
                          ELSE created
            /\ votes' = IF out.result = Ok THEN Append(votes, NoVotes) ELSE votes

CreateBet == Create(MaxBets)

RejectBet ==
    \E caller \in Accounts, value \in Balances, n \in 0..MaxBets :
        /\ Returns(reject_bet(caller, value, n))
        /\ UNCHANGED << created, votes >>

AcceptBet ==
    \E caller \in Accounts, value \in Balances, n \in 0..MaxBets :
        /\ Returns(accept_bet(caller, value, n))
        /\ UNCHANGED << created, votes >>

SubmitOutcome ==
    \E caller \in Accounts, n \in 0..MaxBets, winner \in WinnerCodes :
        /\ Returns(submit_outcome(caller, n, winner))
        /\ votes' = Submitted(caller, n, winner)
        /\ UNCHANGED created

\* A register_as_reviewer call, while fewer than `most` calls were made.
Register(most) ==
    \E caller \in Accounts :
        LET reg == register_as_reviewer(caller)
        IN  /\ register_calls < most
            /\ reviewers' = reg.reviewers
            /\ number_of_reviewers' = reg.number_of_reviewers
            /\ register_calls' = register_calls + 1
            /\ UNCHANGED << bet_creation_fee, final_decision_maker, latest_bet, bets,
                            created, votes >>

RegisterAsReviewer == Register(MaxRegistrations)

Next ==
    \/ CreateBet
    \/ RejectBet
    \/ AcceptBet
    \/ SubmitOutcome
    \/ RegisterAsReviewer

Spec == Init /\ [][Next]_vars

\* ------------------------------------------------------------------ voting
\* No message sets BetState::EventConcluded, the state submit_outcome starts from.
\* The voting phase is therefore explored from ledgers whose bets are the end-to-end
\* scenario's: created by alice with bob as bettor_2, accepted by bob, and then
\* marked EventConcluded.
ConcludedBet ==
    [ NewBet("alice", MaxBalance, "bob", <<"2023-12-21", "T", "00:00:00", "Z">>)
        EXCEPT !.state = "EventConcluded" ]

InitConcluded ==
    /\ bet_creation_fee \in 0..MaxFee
    /\ final_decision_maker \in FinalDecisionMakers
    /\ reviewers = {}
    /\ number_of_reviewers = 0
    /\ latest_bet \in 1..MaxBets
    /\ bets = [i \in 1..latest_bet |-> ConcludedBet]
    /\ created = [i \in 1..latest_bet |-> [bets[i] EXCEPT !.state = "Created"]]
    /\ votes = [i \in 1..latest_bet |-> NoVotes]
    /\ register_calls = 0

NextBets ==
    \/ CreateBet
    \/ RejectBet
    \/ AcceptBet
    \/ SubmitOutcome

SpecConcluded == InitConcluded /\ [][NextBets]_vars

\* The five messages from a ledger of concluded bets.
SpecConcludedRegistry == InitConcluded /\ [][Next]_vars

\* ------------------------------------------------------------------ registry
\* The registry is explored one register_as_reviewer call further than in Spec, so
\* that an account registers twice, beside a ledger of one bet fewer.
CreateFewer == Create(MaxBets - 1)

RegisterRepeatedly == Register(MaxRegistrations + 1)

NextRegistry ==
    \/ CreateFewer
    \/ RejectBet
    \/ AcceptBet
    \/ SubmitOutcome
    \/ RegisterRepeatedly

SpecRegistry == Init /\ [][NextRegistry]_vars

\* ------------------------------------------------------------------ calls
\* Every call of a message in the current state, with what it leaves.
CreateCalls ==
    { [ caller |-> c, value |-> v, amount_to_wager |-> a, bettor_2 |-> b,
        event_decided_by |-> d, checked |-> k,
        out |-> create_bet(c, v, a, b, d, k) ] :
        c \in Accounts, v \in Balances, a \in Balances, b \in Accounts \cup {None},
        d \in DatetimeStrings, k \in BOOLEAN }

AcceptCalls ==
    { [ caller |-> c, value |-> v, n |-> n, out |-> accept_bet(c, v, n) ] :
        c \in Accounts, v \in Balances, n \in 0..MaxBets }

RejectCalls ==
    { [ caller |-> c, value |-> v, n |-> n, out |-> reject_bet(c, v, n) ] :
        c \in Accounts, v \in Balances, n \in 0..MaxBets }

SubmitCalls ==
    { [ caller |-> c, n |-> n, winner |-> w, out |-> submit_outcome(c, n, w) ] :
        c \in Accounts, n \in 0..MaxBets, w \in WinnerCodes }

\* What the calls of the four bet messages leave.
Outcomes ==
    {k.out : k \in CreateCalls} \cup {k.out : k \in AcceptCalls}
        \cup {k.out : k \in RejectCalls} \cup {k.out : k \in SubmitCalls}

\* The bets that were accepted or refused after the votes: their state is no longer
\* the voting's.
Reopened(bet) == bet.state \in {"BetAcceptedByBettor2", "BetRefusedByBettor2"}

BothVoted(i) == votes[i].bettor_1 # NoVote /\ votes[i].bettor_2 # NoVote

\* ------------------------------------------------------------------ claims
\* The terminal state the spec gives a pair of winner codes: agreed claims give the
\* matching state, both-undecideable a draw, every other pairing disagreement.
AgreedState(c1, c2) ==
    IF c1 = 0 /\ c2 = 0 THEN "BettorsDrew"
    ELSE IF c1 > 2 /\ c2 > 2 THEN "BettorsDrew"
    ELSE IF c1 = 1 /\ c2 = 1 THEN "Bettor1Wins"
    ELSE IF c1 = 2 /\ c2 = 2 THEN "Bettor2Wins"
    ELSE "BettorsDisagree"

\* C1: once bettor_1 has submitted c1 and bettor_2 has submitted c2 from
\* EventConcluded (in either order), the bet is in BettorsDrew when both are Draw or
\* both Undecideable, in Bettor1Wins / Bettor2Wins when both say so, and in
\* BettorsDisagree for every other pairing.
C1_Reconciliation ==
    \A i \in 1..Len(bets) :
        (BothVoted(i) /\ ~Reopened(bets[i]))
            => bets[i].state = AgreedState(votes[i].bettor_1, votes[i].bettor_2)

\* C2: a successful submit_outcome writes the caller's claim field and only that
\* one: after bettor_1's first vote outcome_claimed_by_bettor_1 is the decoded winner
\* code and bettor_2's field is still unset, and symmetrically after bettor_2's.
C2_OneClaimWritten ==
    \A i \in 1..Len(bets) :
        /\ bets[i].state = "Bettor1Voted"
            => /\ bets[i].outcome_claimed_by_bettor_1 = DecodeWinner(votes[i].bettor_1)
               /\ bets[i].outcome_claimed_by_bettor_2 = None
        /\ bets[i].state = "Bettor2Voted"
            => /\ bets[i].outcome_claimed_by_bettor_2 = DecodeWinner(votes[i].bettor_2)
               /\ bets[i].outcome_claimed_by_bettor_1 = None

\* C3: no call aborts; in particular every submit_outcome call, the second bettor's
\* from Bettor1Voted or Bettor2Voted included, returns Ok or a value of Error.
C3_SubmitOutcomeReturns ==
    \A k \in SubmitCalls : k.out.result \in {Ok} \cup Errors

\* C4: two bets of the same bettors on which the same pair of claims was submitted
\* are in the same state, whichever bettor voted first.
C4_VoteOrderIndependent ==
    \A i, j \in 1..Len(bets) :
        ( /\ bets[i].bettor_1 = bets[j].bettor_1
          /\ bets[i].bettor_2 = bets[j].bettor_2
          /\ BothVoted(i) /\ BothVoted(j)
          /\ votes[i] = votes[j]
          /\ ~Reopened(bets[i]) /\ ~Reopened(bets[j]) )
            => bets[i].state = bets[j].state

\* C5 as claimed: on a bet created with bettor_2 = B, accept_bet and reject_bet by
\* any other account fail with NotBettor2 whatever funds are attached, and B's calls
\* succeed (accept_bet given funds >= amount_wagered).
C5_NotBettor2RegardlessOfFunds ==
    \A i \in 1..Len(bets) :
        created[i].bettor_2 # None =>
            \A c \in Accounts, v \in Balances :
                IF c # created[i].bettor_2
                THEN /\ accept_bet(c, v, i - 1).result = "NotBettor2"
                     /\ reject_bet(c, v, i - 1).result = "NotBettor2"
                ELSE /\ reject_bet(c, v, i - 1).result = Ok
                     /\ v >= bets[i].amount_wagered => accept_bet(c, v, i - 1).result = Ok

\* C5, amended: on a bet created with bettor_2 = B, reject_bet by any other account
\* fails with NotBettor2 whatever funds are attached; accept_bet by any other account
\* fails with NotBettor2 when the funds are >= amount_wagered and with
\* InssufficientAmountOfTokensSent when they are less; reject_bet by B succeeds, and
\* accept_bet by B succeeds given funds >= amount_wagered.
C5_CounterpartyExclusive ==
    \A i \in 1..Len(bets) :
        created[i].bettor_2 # None =>
            \A c \in Accounts, v \in Balances :
                /\ reject_bet(c, v, i - 1).result =
                       IF c = created[i].bettor_2 THEN Ok ELSE "NotBettor2"
                /\ accept_bet(c, v, i - 1).result =
                       IF v < bets[i].amount_wagered
                       THEN "InssufficientAmountOfTokensSent"
                       ELSE IF c = created[i].bettor_2 THEN Ok ELSE "NotBettor2"

\* A bet pre-assigned to B with a stake above zero that B has accepted, while another
\* account's accept_bet is turned away on both of its failure paths.
C5_Witness ==
    \E i \in 1..Len(bets) :
        /\ created[i].bettor_2 # None
        /\ bets[i].amount_wagered > 0
        /\ bets[i].state = "BetAcceptedByBettor2"
        /\ \E c \in Accounts \ {created[i].bettor_2} :
              /\ accept_bet(c, 0, i - 1).result = "InssufficientAmountOfTokensSent"
              /\ accept_bet(c, bets[i].amount_wagered, i - 1).result = "NotBettor2"

\* C6: on a bet whose bettor_2 is still unset, accept_bet by any account with funds
\* >= amount_wagered succeeds, makes the caller bettor_2 and sets the state to
\* BetAcceptedByBettor2.
C6_OpenAcceptance ==
    \A i \in 1..Len(bets) :
        bets[i].bettor_2 = None =>
            \A c \in Accounts, v \in Balances :
                v >= bets[i].amount_wagered =>
                    LET out == accept_bet(c, v, i - 1) IN
                    /\ out.result = Ok
                    /\ out.bets[i].bettor_2 = c
                    /\ out.bets[i].state = "BetAcceptedByBettor2"
                    /\ \A j \in 1..Len(bets) : j # i => out.bets[j] = bets[j]

\* A bet created open, with a stake above zero, that an account has accepted.
C6_Witness ==
    \E i \in 1..Len(bets) :
        /\ created[i].bettor_2 = None
        /\ created[i].amount_wagered > 0
        /\ bets[i].bettor_2 \in Accounts
        /\ bets[i].state = "BetAcceptedByBettor2"

\* C7: every bet's amount_wagered and bettor_1 are those of its creation, a
\* pre-assigned bettor_2 is still the bet's bettor_2, and no call changes the
\* amount_wagered, the bettor_1 or a set bettor_2 of a bet, or removes a bet.
C7_Immutable ==
    /\ Len(created) = Len(bets)
    /\ \A i \in 1..Len(bets) :
          /\ bets[i].amount_wagered = created[i].amount_wagered
          /\ bets[i].bettor_1 = created[i].bettor_1
          /\ created[i].bettor_2 # None => bets[i].bettor_2 = created[i].bettor_2
    /\ \A out \in Outcomes :
          /\ Len(out.bets) >= Len(bets)
          /\ \A i \in 1..Len(bets) :
                /\ out.bets[i].amount_wagered = bets[i].amount_wagered
                /\ out.bets[i].bettor_1 = bets[i].bettor_1
                /\ bets[i].bettor_2 # None => out.bets[i].bettor_2 = bets[i].bettor_2

\* A bet created open whose bettor_2 was filled in by an acceptance and that a later
\* reject_bet has refused, beside another bet pre-assigned and accepted.
C7_Witness ==
    \E i, j \in 1..Len(bets) :
        /\ created[i].bettor_2 = None
        /\ bets[i].bettor_2 \in Accounts
        /\ bets[i].state = "BetRefusedByBettor2"
        /\ created[j].bettor_2 \in Accounts
        /\ bets[j].state = "BetAcceptedByBettor2"

\* C8: a call of create_bet, accept_bet, reject_bet or submit_outcome that returns
\* an error leaves the ledger and latest_bet as they were.
C8_ErrorsChangeNothing ==
    \A out \in Outcomes :
        out.result \in Errors => out.bets = bets /\ out.latest_bet = latest_bet

\* A full ledger of accepted bets on which each of the four messages has a call that
\* returns an error.
C8_Witness ==
    /\ Len(bets) = MaxBets
    /\ \A i \in 1..Len(bets) : bets[i].state = "BetAcceptedByBettor2"
    /\ \E k \in CreateCalls : k.out.result = "NotDatetimeString"
    /\ \E k \in AcceptCalls : k.out.result = "NotBettor2"
    /\ \E k \in RejectCalls : k.out.result = "NotBettor2"
    /\ \E k \in SubmitCalls : k.out.result = "InvalidStateForCallingFunction"

\* C9: a create_bet call whose attached value is less than fee + amount_to_wager
\* fails with InssufficientAmountOfTokensSent and leaves the number of bets unchanged.
C9_CreationFunding ==
    \A k \in CreateCalls :
        k.value < bet_creation_fee + k.amount_to_wager =>
            /\ k.out.result = "InssufficientAmountOfTokensSent"
            /\ Len(k.out.bets) = Len(bets)

\* C10: a successful create_bet appends exactly one bet and returns its index, the
\* number of bets before the call; the new bet is Created, has the caller as
\* bettor_1, the arguments as bettor_2 and amount_wagered, and no claim.
C10_CreateAppends ==
    \A k \in CreateCalls :
        k.out.result = Ok =>
            /\ k.out.ret = <<Len(bets)>>
            /\ Len(k.out.bets) = Len(bets) + 1
            /\ SubSeq(k.out.bets, 1, Len(bets)) = bets
            /\ LET new == k.out.bets[Len(bets) + 1] IN
               /\ new.state = "Created"
               /\ new.bettor_1 = k.caller
               /\ new.bettor_2 = k.bettor_2
               /\ new.amount_wagered = k.amount_to_wager
               /\ new.outcome_claimed_by_bettor_1 = None
               /\ new.outcome_claimed_by_bettor_2 = None

\* A second bet has been created after the first was accepted: it is Created, as
\* create_bet built it, at index 1.
C10_Witness ==
    /\ Len(bets) = 2
    /\ bets[1].state = "BetAcceptedByBettor2"
    /\ bets[2].state = "Created"
    /\ bets[2] = created[2]
    /\ bets[2].bettor_2 \in Accounts
    /\ latest_bet = 2

\* C11: reject_bet on an existing bet succeeds exactly when the caller is the bet's
\* bettor_2, whatever funds are attached (zero included), and then sets the state to
\* BetRefusedByBettor2 and nothing else; when bettor_2 is unset or is another account
\* it fails with NotBettor2.
C11_RejectByBettor2Only ==
    \A i \in 1..Len(bets) :
        \A c \in Accounts, v \in Balances :
            LET out == reject_bet(c, v, i - 1) IN
            IF bets[i].bettor_2 = c
            THEN /\ out.result = Ok
                 /\ out.bets = [bets EXCEPT ![i].state = "BetRefusedByBettor2"]
            ELSE out.result = "NotBettor2"

\* A bet with a stake above zero that its bettor_2 has refused, which that bettor_2
\* can refuse with nothing attached, beside a bet still open that nobody can refuse.
C11_Witness ==
    \E i, j \in 1..Len(bets) :
        /\ bets[i].amount_wagered > 0
        /\ bets[i].state = "BetRefusedByBettor2"
        /\ reject_bet(bets[i].bettor_2, 0, i - 1).result = Ok
        /\ bets[j].bettor_2 = None
        /\ \A c \in Accounts : reject_bet(c, 0, j - 1).result = "NotBettor2"

\* C12: submit_outcome by a bet's bettor_1 succeeds only in EventConcluded or
\* Bettor2Voted and returns InvalidStateForCallingFunction in every other state; by
\* its bettor_2 (an account that is not also bettor_1) it succeeds only in
\* EventConcluded or Bettor1Voted and returns InvalidStateForCallingFunction in every
\* other state.  A bettor whose vote was taken cannot vote again.
C12_VotingStates ==
    \A i \in 1..Len(bets) :
        \A c \in Accounts, w \in WinnerCodes :
            LET out == submit_outcome(c, i - 1, w) IN
            /\ c = bets[i].bettor_1 =>
                  IF bets[i].state \in {"EventConcluded", "Bettor2Voted"}
                  THEN out.result # "InvalidStateForCallingFunction"
                  ELSE out.result = "InvalidStateForCallingFunction" /\ out.bets = bets
            /\ (c = bets[i].bettor_2 /\ c # bets[i].bettor_1) =>
                  IF bets[i].state \in {"EventConcluded", "Bettor1Voted"}
                  THEN out.result # "InvalidStateForCallingFunction"
                  ELSE out.result = "InvalidStateForCallingFunction" /\ out.bets = bets

\* bettor_1's vote was taken on one bet and bettor_2's on another: each is turned
\* away from a second vote.
C12_Witness ==
    \E i, j \in 1..Len(bets) :
        /\ bets[i].state = "Bettor1Voted" /\ votes[i].bettor_1 # NoVote
        /\ submit_outcome(bets[i].bettor_1, i - 1, votes[i].bettor_1).result
               = "InvalidStateForCallingFunction"
        /\ bets[j].state = "Bettor2Voted" /\ votes[j].bettor_2 # NoVote
        /\ submit_outcome(bets[j].bettor_2, j - 1, votes[j].bettor_2).result
               = "InvalidStateForCallingFunction"

\* C13: submit_outcome on an existing bet by an account that is neither its bettor_1
\* nor its bettor_2 (an unset bettor_2 included) returns CallerNotValidBettor in
\* every state of the bet and changes nothing.
C13_StrangerRejected ==
    \A i \in 1..Len(bets) :
        \A c \in Accounts, w \in WinnerCodes :
            (c # bets[i].bettor_1 /\ c # bets[i].bettor_2) =>
                LET out == submit_outcome(c, i - 1, w) IN
                /\ out.result = "CallerNotValidBettor"
                /\ out.bets = bets
                /\ out.latest_bet = latest_bet

\* A bet on which a vote was taken, beside a bet with bettor_2 still unset: charlie,
\* a party to neither, is turned away from both.
C13_Witness ==
    \E i, j \in 1..Len(bets) :
        /\ bets[i].state \in {"Bettor1Voted", "Bettor2Voted"}
        /\ "charlie" \notin {bets[i].bettor_1, bets[i].bettor_2}
        /\ submit_outcome("charlie", i - 1, 1).result = "CallerNotValidBettor"
        /\ bets[j].bettor_2 = None /\ bets[j].bettor_1 # "charlie"
        /\ submit_outcome("charlie", j - 1, 1).result = "CallerNotValidBettor"

\* C14: accept_bet, reject_bet, submit_outcome and every per-bet accessor called with
\* an index not less than the number of bets return BetDoesNotExist, whatever the
\* caller, the attached funds, the winner code or the bettor code, and the three
\* messages change nothing.
C14_NotFound ==
    \A n \in 0..MaxBets :
        n >= Len(bets) =>
            /\ \A c \in Accounts, v \in Balances :
                   /\ accept_bet(c, v, n) = Fail("BetDoesNotExist")
                   /\ reject_bet(c, v, n) = Fail("BetDoesNotExist")
            /\ \A c \in Accounts, w \in WinnerCodes :
                   submit_outcome(c, n, w) = Fail("BetDoesNotExist")
            /\ \A a \in AccessorCalls(n) : a.result = "BetDoesNotExist"

\* A ledger of one bet: index 0 is answered by every accessor, index 1 is past the
\* end for alice with funds attached and for the bettor code 3.
C14_Witness ==
    /\ Len(bets) = 1
    /\ get_bet_state(0).result = Ok
    /\ get_event_decided_by_as_ms(0).result = Ok
    /\ get_bettor_account_id(0, 3).result = "BettorDoesNotExist"
    /\ accept_bet("alice", MaxBalance, 1).result = "BetDoesNotExist"
    /\ get_bettor_account_id(1, 3).result = "BetDoesNotExist"

\* C15: a create_bet call whose deadline does not parse as a UTC datetime appends no
\* bet, and fails with InssufficientAmountOfTokensSent when the attached value is
\* less than fee + amount_to_wager and with NotDatetimeString otherwise.
C15_InvalidDeadline ==
    \A k \in CreateCalls :
        ~ParsesAsUtc(k.event_decided_by) =>
            /\ k.out.bets = bets
            /\ k.out.result =
                  IF k.value < bet_creation_fee + k.amount_to_wager
                  THEN "InssufficientAmountOfTokensSent"
                  ELSE "NotDatetimeString"

\* The edges of the lifecycle graph.
LifecycleEdges ==
    ({"Created"} \X {"BetAcceptedByBettor2", "BetRefusedByBettor2"})
    \cup ({"BetAcceptedByBettor2", "BetRefusedByBettor2"} \X {"EventConcluded"})
    \cup ({"EventConcluded"} \X {"Bettor1Voted", "Bettor2Voted"})
    \cup ({"Bettor1Voted", "Bettor2Voted"}
              \X {"Bettor1Wins", "Bettor2Wins", "BettorsDrew", "BettorsDisagree"})

\* C16: every change that a call of create_bet, accept_bet, reject_bet or
\* submit_outcome makes to the state of a bet follows an edge of the lifecycle graph;
\* accept_bet and reject_bet change the state of a bet in Created only.
C16_Lifecycle ==
    /\ \A out \in Outcomes :
          \A i \in 1..Len(bets) :
              out.bets[i].state # bets[i].state =>
                  << bets[i].state, out.bets[i].state >> \in LifecycleEdges
    /\ \A k \in AcceptCalls \cup RejectCalls :
          \A i \in 1..Len(bets) :
              k.out.bets[i].state # bets[i].state => bets[i].state = "Created"

\* C17: from an empty ledger every bet's state is Created, BetAcceptedByBettor2 or
\* BetRefusedByBettor2 and no call leaves a bet in any other state; every
\* submit_outcome call returns an error and changes nothing.
C17_NeverConcluded ==
    LET Open == {"Created", "BetAcceptedByBettor2", "BetRefusedByBettor2"} IN
    /\ \A i \in 1..Len(bets) : bets[i].state \in Open
    /\ \A out \in Outcomes : \A i \in 1..Len(out.bets) : out.bets[i].state \in Open
    /\ \A k \in SubmitCalls :
          /\ k.out.result \in Errors
          /\ k.out.bets = bets

\* A full ledger with an accepted bet and a refused bet: the vote of each bettor of
\* each is turned away for the state the bet is in.
C17_Witness ==
    /\ Len(bets) = MaxBets
    /\ \E i, j \in 1..Len(bets) :
          /\ bets[i].state = "BetAcceptedByBettor2"
          /\ bets[j].state = "BetRefusedByBettor2"
          /\ \A x \in {i, j} : \A c \in {bets[x].bettor_1, bets[x].bettor_2} :
                submit_outcome(c, x - 1, 1).result = "InvalidStateForCallingFunction"

\* C18: accept_bet on an existing bet with attached funds below amount_wagered
\* fails with InssufficientAmountOfTokensSent whoever calls, and returns NotBettor2
\* only when the funds are sufficient and the bet has a bettor_2 that is not the
\* caller.
C18_FundsBeforeCounterparty ==
    \A i \in 1..Len(bets) :
        \A c \in Accounts, v \in Balances :
            LET out == accept_bet(c, v, i - 1) IN
            /\ v < bets[i].amount_wagered
                  => out.result = "InssufficientAmountOfTokensSent"
            /\ out.result = "NotBettor2"
                  => /\ v >= bets[i].amount_wagered
                     /\ bets[i].bettor_2 # None
                     /\ bets[i].bettor_2 # c

\* A bet with a stake above zero that its pre-assigned bettor_2 has refused: without
\* funds that bettor_2 and another account are both turned away for the funds, and
\* with the stake attached the other account is turned away as not bettor_2.
C18_Witness ==
    \E i \in 1..Len(bets) :
        /\ created[i].bettor_2 # None
        /\ bets[i].amount_wagered > 0
        /\ bets[i].state = "BetRefusedByBettor2"
        /\ accept_bet(bets[i].bettor_2, 0, i - 1).result
              = "InssufficientAmountOfTokensSent"
        /\ \E c \in Accounts \ {bets[i].bettor_2} :
              /\ accept_bet(c, 0, i - 1).result = "InssufficientAmountOfTokensSent"
              /\ accept_bet(c, bets[i].amount_wagered, i - 1).result = "NotBettor2"

\* C19: on a bet created without bettor_2, while bettor_2 is unset the accept_bet of
\* any account with sufficient funds makes that account bettor_2; once an account
\* is bettor_2, accept_bet with sufficient funds and reject_bet by any other account
\* return NotBettor2 and no call changes bettor_2.
C19_FirstAcceptWins ==
    \A i \in 1..Len(bets) :
        created[i].bettor_2 = None =>
            IF bets[i].bettor_2 = None
            THEN \A c \in Accounts :
                     LET out == accept_bet(c, bets[i].amount_wagered, i - 1) IN
                     out.result = Ok /\ out.bets[i].bettor_2 = c
            ELSE /\ \A c \in Accounts \ {bets[i].bettor_2} :
                        /\ accept_bet(c, bets[i].amount_wagered, i - 1).result
                              = "NotBettor2"
                        /\ \A v \in Balances :
                              /\ reject_bet(c, v, i - 1).result = "NotBettor2"
                              /\ accept_bet(c, v, i - 1).bets = bets
                  /\ \A out \in Outcomes : out.bets[i].bettor_2 = bets[i].bettor_2

\* Two open bets with a stake above zero by the same creator, accepted first by
\* different accounts: on each, the account that came first is bettor_2 and the
\* other two accounts are turned away.
C19_Witness ==
    \E i, j \in 1..Len(bets) :
        /\ \A x \in {i, j} :
              /\ created[x].bettor_2 = None
              /\ bets[x].amount_wagered > 0
              /\ bets[x].state = "BetAcceptedByBettor2"
              /\ bets[x].bettor_2 \in Accounts \ {bets[x].bettor_1}
              /\ \A c \in Accounts \ {bets[x].bettor_2} :
                    accept_bet(c, MaxBalance, x - 1).result = "NotBettor2"
        /\ bets[i].bettor_1 = bets[j].bettor_1
        /\ bets[i].bettor_2 # bets[j].bettor_2

C21_IndexIsLength ==
    /\ latest_bet = Len(bets)
    /\ Len(created) = Len(bets)
    /\ \A i \in 1..Len(bets) : [bets[i] EXCEPT !.state = "Created", !.bettor_2 = None]
                                  = [created[i] EXCEPT !.bettor_2 = None]
    /\ \A k \in CreateCalls :
          k.out.result = Ok =>
              /\ k.out.ret = << Len(bets) >>
              /\ Len(k.out.bets) = Len(bets) + 1
              /\ SubSeq(k.out.bets, 1, Len(bets)) = bets
    /\ \A out \in Outcomes :
          /\ out.latest_bet = Len(out.bets)
          /\ Len(out.bets) >= Len(bets)
          /\ \A i \in 1..Len(bets) :
                [out.bets[i] EXCEPT !.state = "Created", !.bettor_2 = None]
                    = [bets[i] EXCEPT !.state = "Created", !.bettor_2 = None]

\* A full ledger of bets by different creators, the first refused before the last
\* was created or after, one of them created with a stake that overflows the sum
\* with the fee: each is still at the index create_bet returned for it.
C21_Witness ==
    /\ Len(bets) = MaxBets
    /\ latest_bet = MaxBets
    /\ bets[1].bettor_1 # bets[MaxBets].bettor_1
    /\ bets[1].state = "BetRefusedByBettor2"
    /\ \E i \in 1..Len(bets) : Overflows(bet_creation_fee, bets[i].amount_wagered)
    /\ \A i \in 1..Len(bets) : bets[i].bettor_1 = created[i].bettor_1

\* What a call addressed to bet n leaves of the ledger: every bet but bet n, the
\* number of bets and latest_bet are as before.
TouchesOnly(n, out) ==
    /\ out.latest_bet = latest_bet
    /\ Len(out.bets) = Len(bets)
    /\ \A i \in 1..Len(bets) : i # n + 1 => out.bets[i] = bets[i]

\* C22: accept_bet, reject_bet and submit_outcome addressed to bet n leave every
\* other bet, the number of bets and latest_bet unchanged; no step that changes the
\* ledger or records a vote changes the reviewer registry, a register_as_reviewer
\* step changes no bet, and no step changes the creation fee or the final decision
\* maker.
C22_Frame ==
    /\ [](\A k \in AcceptCalls \cup RejectCalls \cup SubmitCalls :
              TouchesOnly(k.n, k.out))
    /\ [][ /\ UNCHANGED << bet_creation_fee, final_decision_maker >>
           /\ (bets' # bets \/ latest_bet' # latest_bet \/ votes' # votes)
                 => UNCHANGED << reviewers, number_of_reviewers >>
           /\ register_calls' # register_calls
                 => UNCHANGED << bets, latest_bet >> ]_vars

\* Two bets and one registered reviewer: bettor_1 has voted on the first bet, the
\* second was refused, and each call has left the other bet in the state it had,
\* the first with the fields of its creation.
C22_Witness ==
    /\ Len(bets) = 2
    /\ bets[1].state = "Bettor1Voted"
    /\ votes[1].bettor_1 # NoVote
    /\ votes[2] = NoVotes
    /\ bets[2].state = "BetRefusedByBettor2"
    /\ [bets[1] EXCEPT !.state = "Created"] = created[1]
    /\ register_calls = 1
    /\ Cardinality(reviewers) = 1

\* C23: for every bet whose bettor_2 is set, bettor_2 differs from bettor_1.
C23_DistinctBettors ==
    \A i \in 1..Len(bets) :
        bets[i].bettor_2 # None => bets[i].bettor_2 # bets[i].bettor_1

\* The bettors of a bet are accounts where they have to be: bettor_1 always,
\* bettor_2 once the bet is accepted or refused.
BettorsSet(bet) ==
    /\ bet.bettor_1 \in Accounts
    /\ bet.state \in {"BetAcceptedByBettor2", "BetRefusedByBettor2"}
          => bet.bettor_2 \in Accounts

\* C24: every bet has bettor_1 set, and every bet in BetAcceptedByBettor2 or
\* BetRefusedByBettor2 has bettor_2 set as well; every call leaves the ledger so, and
\* no submit_outcome call traps.
C24_BettorsSet ==
    /\ \A i \in 1..Len(bets) : BettorsSet(bets[i])
    /\ \A out \in Outcomes : \A i \in 1..Len(out.bets) : BettorsSet(out.bets[i])
    /\ \A k \in SubmitCalls : k.out.result # Panic

\* A bet created open that the account accepting it has then refused, beside a bet
\* still open: nobody can refuse the open one, and bettor_1's vote on either is
\* answered with an error.
C24_Witness ==
    \E i, j \in 1..Len(bets) :
        /\ created[i].bettor_2 = None
        /\ bets[i].state = "BetRefusedByBettor2"
        /\ bets[i].bettor_2 \in Accounts
        /\ bets[j].state = "Created"
        /\ bets[j].bettor_2 = None
        /\ \A c \in Accounts : reject_bet(c, 0, j - 1).result = "NotBettor2"
        /\ \A x \in {i, j} :
              submit_outcome(bets[x].bettor_1, x - 1, 0).result
                  = "InvalidStateForCallingFunction"

====
